---- MODULE Spec2Model ----
(***************************************************************************)
(* The Subject Store Gateway of Dentalec: two Express servers over a       *)
(* Firestore collection of subjects.                                       *)
(*   variant 1: src/unnamed/part_000 (server-generated ids, file routes)   *)
(*   variant 2: src/server.js        (client-supplied ids, sample seeding) *)
(* A behaviour is one deployment: `variant` is fixed by Init.  Every       *)
(* handler is cut at its awaits on the store: a handler with one store     *)
(* operation is one action, a handler with two is a read step and a write  *)
(* step, and other handlers may run in between.                            *)
(***************************************************************************)
EXTENDS Integers, Sequences, FiniteSets, TLC

VARIABLES
    variant,   \* which server is deployed: 1 or 2
    store,     \* the subjects collection: document key -> document data
    nextAuto,  \* how many auto-ids subjectsCollection.doc() has handed out
    now,       \* the clock, in milliseconds (Timestamp.now().toMillis())
    tasks,     \* the suspended handlers: task -> what it holds across its await
    resp,      \* the handler step just taken and what it answered
    created,   \* history: ids a create answered 201 for, not deleted since
    gone       \* history: keys a delete answered for, not created since

vars == <<variant, store, nextAuto, now, tasks, resp, created, gone>>

----------------------------------------------------------------------------
(* Bounds of the model. *)

\* auto-ids handed out in one behaviour of variant 1
MaxSubjects == 2
\* files stored plus add-file requests in flight (further ones are not sent)
MaxFiles == 2
\* the last millisecond the clock reaches
MaxClock == 1
\* distinct outcomes of Math.random()
NumRnd == 2
\* handlers that can be suspended at the same time
NumTasks == 2

Tasks == 1..NumTasks

----------------------------------------------------------------------------
(* JavaScript values: a type tag and, for strings and numbers, the         *)
(* characters of the value (of its decimal rendering for a number).        *)

Undef == [t |-> "undefined", v |-> <<>>]

Str(s) == [t |-> "string", v |-> s]

Num(s) == [t |-> "number", v |-> s]

\* !x is true for undefined, "" and 0
Falsy(x) ==
    \/ x.t = "undefined"
    \/ x.t = "string" /\ x.v = <<>>
    \/ x.t = "number" /\ x.v = <<"0">>

\* String(x)
String(x) ==
    IF x.t = "undefined"
    THEN <<"u", "n", "d", "e", "f", "i", "n", "e", "d">>
    ELSE x.v

RECURSIVE TrimStart(_)
TrimStart(s) ==
    IF s # <<>> /\ Head(s) = " " THEN TrimStart(Tail(s)) ELSE s

RECURSIVE TrimEnd(_)
TrimEnd(s) ==
    IF s # <<>> /\ s[Len(s)] = " " THEN TrimEnd(SubSeq(s, 1, Len(s) - 1)) ELSE s

\* String.prototype.trim, on the characters of a string
Trim(s) == TrimEnd(TrimStart(s))

DigitChars == <<"0", "1", "2", "3", "4", "5", "6", "7", "8", "9">>

\* Number.prototype.toString(), decimal
RECURSIVE NumToString(_)
NumToString(n) ==
    IF n < 10
    THEN <<DigitChars[n + 1]>>
    ELSE NumToString(n \div 10) \o <<DigitChars[(n % 10) + 1]>>

Range(s) == {s[i] : i \in 1..Len(s)}

----------------------------------------------------------------------------
(* Documents. *)

NoFile == [id |-> Undef, name |-> Undef, content |-> Undef]

\* the keys of the collection, in the order a snapshot lists them
AutoId(n) == <<"s">> \o NumToString(n)

Keys1 == [n \in 1..MaxSubjects |-> AutoId(n)]

Keys2 == <<<<"1">>, <<"2">>>>

KeyOrder == IF variant = 1 THEN Keys1 ELSE Keys2

\* a listing that leaves out the snapshot's last document
ListDocsDropLast(st) ==
    LET present == SelectSeq(KeyOrder, LAMBDA k : k \in DOMAIN st)
    IN  [i \in 1..(Len(present) - 1) |-> st[present[i]]]

\* snapshot.docs.map(doc => doc.data())
ListDocs(st) ==
    LET present == SelectSeq(KeyOrder, LAMBDA k : k \in DOMAIN st)
    IN  [i \in 1..Len(present) |-> st[present[i]]]

\* ref.set(data): creates or overwrites the document
SetDoc(st, key, data) ==
    [k \in DOMAIN st \cup {key} |-> IF k = key THEN data ELSE st[k]]

\* ref.delete(): succeeds whether or not the document exists
DeleteDoc(st, key) == [k \in DOMAIN st \ {key} |-> st[k]]

\* FieldValue.arrayUnion(e): appends e unless an equal element is present
ArrayUnion(files, e) ==
    IF e \in Range(files) THEN files ELSE Append(files, e)

\* a removal that matches on the id alone
ArrayRemoveById(files, e) == SelectSeq(files, LAMBDA f : f.id # e.id)

\* FieldValue.arrayRemove(e): removes every element equal to e
ArrayRemove(files, e) == SelectSeq(files, LAMBDA f : f # e)

\* a find that takes the first file whatever its id
FindFileAny(files, fileId) == IF files = <<>> THEN NoFile ELSE Head(files)

\* subjectData.files.find(f => f.id === fileId); NoFile when find gives undefined
FindFile(files, fileId) ==
    LET hits == SelectSeq(files, LAMBDA f : f.id = fileId)
    IN  IF hits = <<>> THEN NoFile ELSE Head(hits)

\* Math.random().toString(36).substr(2, 9), for the r-th outcome of Math.random()
Base36Letters == <<"a", "b", "c", "d", "e", "f", "g", "h", "i", "j">>

RandomSuffix(r) == <<Base36Letters[r]>>

\* Timestamp.now().toMillis().toString() + Math.random().toString(36).substr(2, 9)
FileId(ms, r) == Str(NumToString(ms) \o RandomSuffix(r))

FileIds == {FileId(ms, r) : ms \in 0..MaxClock, r \in 1..NumRnd}

----------------------------------------------------------------------------
(* Requests. *)

\* values a request body gives for a subject's name
NameInputs ==
    {Undef, Num(<<"7">>), Str(<<>>), Str(<<" ">>), Str(<<" ", "a", " ">>), Str(<<"a">>)}

\* the two of them sent where the file routes are exercised as well: one
\* that both name checks reject and one that both accept
FocusNames == {Str(<<>>), Str(<<"a">>)}

\* values a request body gives for a file's name and content
FileNameInputs == {Undef, Str(<<>>), Str(<<"f">>), Str(<<"g">>)}

FileContentInputs == {Str(<<>>), Str(<<"c">>)}

\* :subjectId of a request to variant 1
PathIds1 == Range(Keys1)

\* :subjectId of a request to variant 2
PathIds2 == Range(Keys2)

\* req.body of a request to variant 2; present is FALSE when there is no body
NoBody == [present |-> FALSE, id |-> Undef, name |-> Undef, files |-> <<>>]

Bodies2 ==
    {NoBody} \cup
    [present : {TRUE},
     id : {Undef, Num(<<"1">>), Str(<<"1">>), Str(<<"2">>)},
     name : {Undef, Str(<<"a">>)},
     files : {<<>>}]

\* the document a body is stored as
DocOf(body) == [id |-> body.id, name |-> body.name, files |-> body.files]

\* initialSubjects[0] of variant 2
Sample ==
    [id |-> Num(<<"1">>),
     name |-> Str(<<"A", "n", "a", "t", "o", "m", "y">>),
     files |-> << [id |-> Undef, name |-> Str(<<"C", "N">>), content |-> Str(<<"T", "t">>)],
                  [id |-> Undef, name |-> Str(<<"M", "M">>), content |-> Str(<<"T", "f">>)] >>]

----------------------------------------------------------------------------
(* Suspended handlers and the record of a step. *)

\* pc: where the handler is suspended; sid, name, content: the request it
\* serves; file: fileToRemove; seen: history, `gone` as it was at the read
Idle ==
    [pc |-> "idle", sid |-> <<>>, name |-> Undef, content |-> Undef,
     file |-> NoFile, seen |-> {}]

\* the handler step just taken: its route, the HTTP status it answered (0
\* while the handler is suspended at an await and has not answered), the
\* name a create or rename request of variant 1 gave, the file an add-file
\* answered with or a delete-file removed, and the list a list answered with
Answer(op, status, name, file, list) ==
    [op |-> op, status |-> status, name |-> name, file |-> file, list |-> list]

Status(op, status) == Answer(op, status, Undef, NoFile, <<>>)

Init ==
    /\ variant \in {1, 2}
    /\ store = <<>>
    /\ nextAuto = 0
    /\ now = 0
    /\ tasks = [t \in Tasks |-> Idle]
    /\ resp = Status("none", 0)
    /\ created = {}
    /\ gone = {}

----------------------------------------------------------------------------
(* Variant 1: src/unnamed/part_000 *)

\* the clock advances
Tick ==
    /\ variant = 1
    /\ now < MaxClock
    /\ now' = now + 1
    /\ UNCHANGED <<variant, store, nextAuto, tasks, resp, created, gone>>

\* GET /api/subjects
ListSubjects1 ==
    /\ variant = 1
    /\ resp' = Answer("list", 200, Undef, NoFile, ListDocs(store))
    /\ UNCHANGED <<variant, store, nextAuto, now, tasks, created, gone>>

\* the name check of POST /api/subjects
CreateNameInvalid(name) ==
    Falsy(name) \/ name.t # "string" \/ Trim(name.v) = <<>>

\* POST /api/subjects
CreateSubject1(name) ==
    /\ variant = 1
    /\ IF CreateNameInvalid(name)
       THEN /\ resp' = Answer("create", 400, name, NoFile, <<>>)
            /\ UNCHANGED <<store, nextAuto, created, gone>>
       ELSE /\ nextAuto < MaxSubjects
            /\ LET key == AutoId(nextAuto + 1)
                   newSubject == [id |-> Str(key), name |-> Str(Trim(name.v)), files |-> <<>>]
               IN  /\ store' = SetDoc(store, key, newSubject)
                   /\ resp' = Answer("create", 201, name, NoFile, <<>>)
                   /\ created' = created \cup {newSubject.id}
                   /\ gone' = gone \ {key}
            /\ nextAuto' = nextAuto + 1
    /\ UNCHANGED <<variant, now, tasks>>

\* a name check that rejects only a missing name
RenameNameMissing(name) == name.t = "undefined"

\* the name check of PUT /api/subjects/:subjectId
RenameNameInvalid(name) == Falsy(name)

\* PUT /api/subjects/:subjectId; update() of a missing document throws
RenameSubject1(sid, name) ==
    /\ variant = 1
    /\ IF RenameNameInvalid(name)
       THEN /\ resp' = Answer("rename", 400, name, NoFile, <<>>)
            /\ UNCHANGED store
       ELSE IF sid \notin DOMAIN store
       THEN /\ resp' = Answer("rename", 500, name, NoFile, <<>>)
            /\ UNCHANGED store
       ELSE /\ store' = [store EXCEPT ![sid].name = name]
            /\ resp' = Answer("rename", 200, name, NoFile, <<>>)
    /\ UNCHANGED <<variant, nextAuto, now, tasks, created, gone>>

\* DELETE /api/subjects/:subjectId
DeleteSubject1(sid) ==
    /\ variant = 1
    /\ store' = DeleteDoc(store, sid)
    /\ resp' = Status("delete", 200)
    /\ created' = {x \in created : String(x) # sid}
    /\ gone' = gone \cup {sid}
    /\ UNCHANGED <<variant, nextAuto, now, tasks>>

\* add-file requests in flight, between their read and their write
PendingAdds == {t \in Tasks : tasks[t].pc = "addfile"}

RECURSIVE SumLen(_, _)
SumLen(st, ks) ==
    IF ks = {} THEN 0
    ELSE LET k == CHOOSE x \in ks : TRUE
         IN  Len(st[k].files) + SumLen(st, ks \ {k})

\* files stored in the whole collection
StoredFiles == SumLen(store, DOMAIN store)

\* POST /api/subjects/:subjectId/files, up to the await of subjectRef.get()
AddFileRead(t, sid, name, content) ==
    /\ variant = 1
    /\ tasks[t].pc = "idle"
    /\ IF Falsy(name) \/ Falsy(content)
       THEN /\ resp' = Status("addfile", 400)
            /\ UNCHANGED tasks
       ELSE IF sid \notin DOMAIN store
       THEN /\ resp' = Status("addfile", 404)
            /\ UNCHANGED tasks
       ELSE /\ StoredFiles + Cardinality(PendingAdds) < MaxFiles
            /\ tasks' = [tasks EXCEPT ![t] =
                   [Idle EXCEPT !.pc = "addfile", !.sid = sid, !.name = name,
                                !.content = content]]
            /\ resp' = Status("addfile", 0)
    /\ UNCHANGED <<variant, store, nextAuto, now, created, gone>>

\* an update that writes the new file as the whole array
AddFileOverwrite(files, newFile) == <<newFile>>

\* the update of the add-file handler
AddFileUpdate(files, newFile) == ArrayUnion(files, newFile)

\* POST /api/subjects/:subjectId/files, from newFile to the answer; r is the
\* outcome of Math.random(); update() of a missing document throws
AddFileWrite(t, r) ==
    /\ variant = 1
    /\ tasks[t].pc = "addfile"
    /\ LET sid == tasks[t].sid
           newFile == [id |-> FileId(now, r), name |-> tasks[t].name,
                       content |-> tasks[t].content]
       IN  IF sid \notin DOMAIN store
           THEN /\ resp' = Status("addfile", 500)
                /\ UNCHANGED store
           ELSE /\ store' = [store EXCEPT ![sid].files = AddFileUpdate(@, newFile)]
                /\ resp' = Answer("addfile", 201, Undef, newFile, <<>>)
    /\ tasks' = [tasks EXCEPT ![t] = Idle]
    /\ UNCHANGED <<variant, nextAuto, now, created, gone>>

\* DELETE /api/subjects/:subjectId/files/:fileId, up to the await of get()
\* and the two not-found answers that follow it
DelFileRead(t, sid, fileId) ==
    /\ variant = 1
    /\ tasks[t].pc = "idle"
    /\ IF sid \notin DOMAIN store
       THEN /\ resp' = Status("delfile", 404)
            /\ UNCHANGED tasks
       ELSE LET fileToRemove == FindFile(store[sid].files, fileId)
            IN  IF fileToRemove = NoFile
                THEN /\ resp' = Status("delfile", 404)
                     /\ UNCHANGED tasks
                ELSE /\ tasks' = [tasks EXCEPT ![t] =
                            [Idle EXCEPT !.pc = "delfile", !.sid = sid,
                                         !.file = fileToRemove]]
                     /\ resp' = Status("delfile", 0)
    /\ UNCHANGED <<variant, store, nextAuto, now, created, gone>>

\* the update of the delete-file handler
DelFileUpdate(files, fileToRemove) == ArrayRemove(files, fileToRemove)

\* DELETE /api/subjects/:subjectId/files/:fileId, the update and the answer;
\* update() of a missing document throws
DelFileWrite(t) ==
    /\ variant = 1
    /\ tasks[t].pc = "delfile"
    /\ LET sid == tasks[t].sid
           fileToRemove == tasks[t].file
       IN  IF sid \notin DOMAIN store
           THEN /\ resp' = Status("delfile", 500)
                /\ UNCHANGED store
           ELSE /\ store' = [store EXCEPT ![sid].files = DelFileUpdate(@, fileToRemove)]
                /\ resp' = Answer("delfile", 200, Undef, fileToRemove, <<>>)
    /\ tasks' = [tasks EXCEPT ![t] = Idle]
    /\ UNCHANGED <<variant, nextAuto, now, created, gone>>

----------------------------------------------------------------------------
(* Variant 2: src/server.js *)

\* GET /api/subjects, up to the await of subjectsCollection.get(), and the
\* answer when the snapshot is not empty
ListRead2(t) ==
    /\ variant = 2
    /\ tasks[t].pc = "idle"
    /\ IF store = <<>>
       THEN /\ tasks' = [tasks EXCEPT ![t] = [Idle EXCEPT !.pc = "seed", !.seen = gone]]
            /\ resp' = Status("list", 0)
       ELSE /\ resp' = Answer("list", 200, Undef, NoFile, ListDocs(store))
            /\ UNCHANGED tasks
    /\ UNCHANGED <<variant, store, nextAuto, now, created, gone>>

\* GET /api/subjects on an empty snapshot: the set() of the sample subject,
\* and the answer
ListSeed2(t) ==
    /\ variant = 2
    /\ tasks[t].pc = "seed"
    /\ store' = SetDoc(store, String(Sample.id), Sample)
    /\ resp' = Answer("list", 200, Undef, NoFile, <<Sample>>)
    /\ tasks' = [tasks EXCEPT ![t] = Idle]
    /\ UNCHANGED <<variant, nextAuto, now, created, gone>>

\* POST /api/subjects
CreateSubject2(body) ==
    /\ variant = 2
    /\ IF ~body.present \/ Falsy(body.name) \/ Falsy(body.id)
       THEN /\ resp' = Status("create", 400)
            /\ UNCHANGED <<store, created, gone>>
       ELSE /\ store' = SetDoc(store, String(body.id), DocOf(body))
            /\ resp' = Status("create", 201)
            /\ created' = created \cup {body.id}
            /\ gone' = gone \ {String(body.id)}
    /\ UNCHANGED <<variant, nextAuto, now, tasks>>

\* PUT /api/subjects/:subjectId
PutSubject2(sid, body) ==
    /\ variant = 2
    /\ IF ~body.present
       THEN /\ resp' = Status("rename", 400)
            /\ UNCHANGED store
       ELSE /\ store' = SetDoc(store, sid, DocOf(body))
            /\ resp' = Status("rename", 200)
    /\ UNCHANGED <<variant, nextAuto, now, tasks, created, gone>>

\* DELETE /api/subjects/:subjectId
DeleteSubject2(sid) ==
    /\ variant = 2
    /\ store' = DeleteDoc(store, sid)
    /\ resp' = Status("delete", 204)
    /\ created' = {x \in created : String(x) # sid}
    /\ gone' = gone \cup {sid}
    /\ UNCHANGED <<variant, nextAuto, now, tasks>>

----------------------------------------------------------------------------
(* Specifications. *)

\* the subject routes of variant 1, with names drawn from `names`
SubjectRoutes1(names) ==
    \/ ListSubjects1
    \/ \E name \in names : CreateSubject1(name)
    \/ \E sid \in PathIds1, name \in names : RenameSubject1(sid, name)
    \/ \E sid \in PathIds1 : DeleteSubject1(sid)

\* the file routes of variant 1
FileRoutes1 ==
    \/ Tick
    \/ \E t \in Tasks, sid \in PathIds1, name \in FileNameInputs,
          content \in FileContentInputs : AddFileRead(t, sid, name, content)
    \/ \E t \in Tasks, r \in 1..NumRnd : AddFileWrite(t, r)
    \/ \E t \in Tasks, sid \in PathIds1, fileId \in FileIds : DelFileRead(t, sid, fileId)
    \/ \E t \in Tasks : DelFileWrite(t)

\* the routes of variant 2
Routes2 ==
    \/ \E t \in Tasks : ListRead2(t)
    \/ \E t \in Tasks : ListSeed2(t)
    \/ \E body \in Bodies2 : CreateSubject2(body)
    \/ \E sid \in PathIds2, body \in Bodies2 : PutSubject2(sid, body)
    \/ \E sid \in PathIds2 : DeleteSubject2(sid)

\* either server, every route
Next == SubjectRoutes1(FocusNames) \/ FileRoutes1 \/ Routes2

Spec == Init /\ [][Next]_vars

\* variant 1, its subject routes under every name input
InitNames == Init /\ variant = 1

NextNames == SubjectRoutes1(NameInputs)

SpecNames == InitNames /\ [][NextNames]_vars

----------------------------------------------------------------------------
(* Properties. *)

\* how many entries of a list answer have the id x
Listed(list, x) == Cardinality({i \in 1..Len(list) : list[i].id = x})

\* no entry of a list answer has an id whose key is among keys
NoneListed(list, keys) ==
    \A i \in 1..Len(list) :
        list[i].id.t = "undefined" \/ String(list[i].id) \notin keys

\* a list answer holds the documents of st, each as often as st holds it
IsListingOf(list, st) ==
    /\ Len(list) = Cardinality(DOMAIN st)
    /\ \A k \in DOMAIN st :
           Cardinality({i \in 1..Len(list) : list[i] = st[k]})
               = Cardinality({j \in DOMAIN st : st[j] = st[k]})

\* seq without every occurrence of e, the rest in order
RECURSIVE Without(_, _)
Without(seq, e) ==
    IF seq = <<>> THEN <<>>
    ELSE IF Head(seq) = e THEN Without(Tail(seq), e)
    ELSE <<Head(seq)>> \o Without(Tail(seq), e)

\* seq without its i-th element
DropAt(seq, i) == SubSeq(seq, 1, i - 1) \o SubSeq(seq, i + 1, Len(seq))

\* every document but the one under key is the same in store and store'
OthersUnchanged(key) ==
    /\ DOMAIN store' = DOMAIN store
    /\ \A k \in DOMAIN store \ {key} : store'[k] = store[k]

\* a list request that reads and answers in this step
ListAnswered ==
    /\ resp'.op = "list"
    /\ resp'.status = 200
    /\ ListSubjects1 \/ \E t \in Tasks : ListRead2(t)

\* C1: a list answered after a create answered 201, the created subject not
\* deleted in between, holds exactly one entry with the created id.  (A list
\* of variant 2 that found the collection empty read it when no created
\* subject was stored, so it is later than none and is left out.)
C1_CreatedListedOnce ==
    [][ListAnswered => \A x \in created : Listed(resp'.list, x) = 1]_vars

\* C2: a list that reads after a delete of S answered, no create of S having
\* answered since, holds no entry with id S
C2_DeletedNotListed ==
    [][ /\ ListAnswered => NoneListed(resp'.list, gone)
        /\ \A t \in Tasks :
               (resp'.op = "list" /\ ListSeed2(t))
                   => NoneListed(resp'.list, tasks[t].seen \cap gone)
      ]_vars

\* C3: an add-file that answers 201 with F leaves the subject's files as
\* they were before the write, with F appended
C3_AddFileAppends ==
    [][ \A t \in Tasks, r \in 1..NumRnd :
            (resp'.status = 201 /\ AddFileWrite(t, r))
                => store'[tasks[t].sid].files
                       = Append(store[tasks[t].sid].files, resp'.file)
      ]_vars

\* C4 as stated: a delete-file that answers 200 removes exactly the one file
\* whose id is :fileId, and leaves the other files and subjects as they were
C4_RemovesTheOneFile ==
    [][ \A t \in Tasks :
            (resp'.op = "delfile" /\ resp'.status = 200 /\ DelFileWrite(t))
                => LET sid == tasks[t].sid
                       before == store[sid].files
                       hits == {i \in 1..Len(before) : before[i].id = tasks[t].file.id}
                   IN  /\ Cardinality(hits) = 1
                       /\ store'[sid].files = DropAt(before, CHOOSE i \in hits : TRUE)
                       /\ OthersUnchanged(sid)
      ]_vars

\* C4 as amended: a delete-file that answers 200 removes every file equal, in
\* id, name and content, to the file its read found under :fileId (none when
\* it is no longer there), and leaves the other files, in order, the
\* subject's id and name, and the other subjects as they were
C4_RemovesEqualFiles ==
    [][ \A t \in Tasks :
            (resp'.op = "delfile" /\ resp'.status = 200 /\ DelFileWrite(t))
                => LET sid == tasks[t].sid
                   IN  /\ store'[sid].files = Without(store[sid].files, tasks[t].file)
                       /\ store'[sid].id = store[sid].id
                       /\ store'[sid].name = store[sid].name
                       /\ OthersUnchanged(sid)
      ]_vars

\* a delete-file has answered 200 and the subject still holds a file with the
\* id of the removed one
C4_Witness ==
    /\ resp.op = "delfile"
    /\ resp.status = 200
    /\ \E k \in DOMAIN store :
           \E i \in 1..Len(store[k].files) :
               /\ store[k].files[i].id = resp.file.id
               /\ store[k].files[i] # resp.file

\* C5: a delete-file for a subject that is not stored, or for a file id that
\* no file of the stored subject has, answers 404 and leaves the store as it
\* was
C5_NotFoundLeavesStore ==
    [][ \A t \in Tasks, sid \in PathIds1, fileId \in FileIds :
            ( /\ resp'.op = "delfile"
              /\ \/ sid \notin DOMAIN store
                 \/ \A i \in 1..Len(store[sid].files) : store[sid].files[i].id # fileId
              /\ DelFileRead(t, sid, fileId) )
                => resp'.status = 404 /\ store' = store
      ]_vars

\* a delete-file has answered 404 while every subject is stored and has a
\* file: the file id was the one not found
C5_Witness ==
    /\ resp.op = "delfile"
    /\ resp.status = 404
    /\ DOMAIN store = PathIds1
    /\ \A k \in DOMAIN store : store[k].files # <<>>

\* C6: a rename with the empty string as name answers 400 and writes
\* nothing, so that a list still shows every subject as it was
C6_EmptyRenameRejected ==
    [][ \A sid \in PathIds1 :
            (resp'.op = "rename" /\ RenameSubject1(sid, Str(<<>>)))
                => /\ resp'.status = 400
                   /\ store' = store
                   /\ IsListingOf(ListDocs(store'), store)
      ]_vars

\* a rename of a stored subject with the empty string has answered 400
C6_Witness ==
    /\ resp.op = "rename"
    /\ resp.status = 400
    /\ resp.name = Str(<<>>)
    /\ store # <<>>

\* C7: no subject of variant 1 holds two files with the same id
C7_FileIdsUnique ==
    variant = 1 =>
        \A k \in DOMAIN store :
            \A i, j \in 1..Len(store[k].files) :
                i # j => store[k].files[i].id # store[k].files[j].id

\* a step that deletes: a delete-subject, or the write of a delete-file
DeleteStep ==
    \/ resp'.op = "delete" /\ \E sid \in PathIds1 : DeleteSubject1(sid)
    \/ resp'.op = "delfile" /\ \E t \in Tasks : DelFileWrite(t)

\* C8: no add-file is lost.  The file an add-file answers 201 with is in the
\* subject's files after its write, and no step but a delete takes a file
\* out of a subject: so the files of every add-file that answered are there
\* as long as no delete ran, however the reads and writes interleave
C8_NoLostUpdate ==
    [][ variant = 1 =>
            /\ \A t \in Tasks, r \in 1..NumRnd :
                   (resp'.status = 201 /\ AddFileWrite(t, r))
                       => resp'.file \in Range(store'[tasks[t].sid].files)
            /\ ~DeleteStep =>
                   \A k \in DOMAIN store :
                       /\ k \in DOMAIN store'
                       /\ Range(store[k].files) \subseteq Range(store'[k].files)
      ]_vars

\* an add-file has answered 201 while another add-file for the same subject
\* is between its read and its write, and the subject holds the file of the
\* first and one more
C8_Witness ==
    /\ resp.op = "addfile"
    /\ resp.status = 201
    /\ \E u \in Tasks :
           /\ tasks[u].pc = "addfile"
           /\ tasks[u].sid \in DOMAIN store
           /\ resp.file \in Range(store[tasks[u].sid].files)

\* a list step of either variant
ListStep ==
    /\ resp'.op = "list"
    /\ \/ ListSubjects1
       \/ \E t \in Tasks : ListRead2(t)
       \/ \E t \in Tasks : ListSeed2(t)

\* C9 as stated: a list never writes, and answers with the stored subjects
C9_ListIsPureRead ==
    [][ ListStep =>
            /\ store' = store
            /\ resp'.status = 200 => IsListingOf(resp'.list, store)
      ]_vars

\* C9 as amended: a list of variant 1, and a list of variant 2 that reads a
\* collection that is not empty, writes nothing and answers with the stored
\* subjects; a list of variant 2 that reads an empty collection writes the
\* sample subject under key "1", nothing else, and answers with the sample
C9_ListReadsOrSeeds ==
    [][ resp'.op = "list" =>
        /\ ListSubjects1 =>
               /\ store' = store
               /\ resp'.status = 200
               /\ IsListingOf(resp'.list, store)
        /\ \A t \in Tasks :
               ListRead2(t) =>
                   /\ store' = store
                   /\ IF store = <<>>
                      THEN resp'.status = 0
                      ELSE resp'.status = 200 /\ IsListingOf(resp'.list, store)
        /\ \A t \in Tasks :
               ListSeed2(t) =>
                   /\ DOMAIN store' = DOMAIN store \cup {<<"1">>}
                   /\ store'[<<"1">>] = Sample
                   /\ \A k \in DOMAIN store \ {<<"1">>} : store'[k] = store[k]
                   /\ resp'.status = 200
                   /\ resp'.list = <<Sample>>
      ]_vars

\* a list of variant 2 has answered with two stored subjects
C9_Witness ==
    /\ variant = 2
    /\ resp.op = "list"
    /\ resp.status = 200
    /\ Len(resp.list) = 2
    /\ Sample \in Range(resp.list)

\* C10: the name of every stored subject of variant 1 is a string, not
\* empty, without a space at either end
C10_NamesTrimmed ==
    variant = 1 =>
        \A k \in DOMAIN store :
            LET n == store[k].name
            IN  /\ n.t = "string"
                /\ n.v # <<>>
                /\ n.v[1] # " "
                /\ n.v[Len(n.v)] # " "

====
